---- MODULE Spec2Model ----
(***************************************************************************)
(* PCA-based yield curve stress testing (python-webapp).                   *)
(*                                                                         *)
(* Spec    : the engine, one PCAAnalyzer and the StressScenarioGenerator   *)
(*           driven by a single caller (services/pca_analysis.py,          *)
(*           services/stress_scenarios.py).                                *)
(* SpecWeb : /api/analyze, /api/export/csv and /api/cache/clear of app.py  *)
(*           served by concurrent request threads that share the memoize   *)
(*           cache.                                                        *)
(* SpecExcel : /api/export/excel served by concurrent request threads that *)
(*           share the module-level pca_analyzer; perform_pca is taken     *)
(*           statement by statement.                                       *)
(* SpecRequest : every endpoint, one request at a time, with any body.     *)
(*                                                                         *)
(* Numbers.  Yields are integers.  The panels of the model have integer    *)
(* column means and pairwise uncorrelated maturity columns with pairwise   *)
(* different variances, so that the eigen-decomposition computed by        *)
(* sklearn's PCA is exact: the loadings are the unit vectors of the        *)
(* maturities ordered by descending variance.  A variance ratio is kept as *)
(* the fraction num/den, 0/0 being the NaN numpy produces.  A quantile     *)
(* level is QNum/QDen, and every quantity that contains a rolling quantile *)
(* is kept multiplied by QDen.                                             *)
(***************************************************************************)
EXTENDS Integers, Sequences, FiniteSets, TLC

VARIABLES yield_data, analyzer, pca_results, stress_results, recon, first_fit,
          requests, cache, shared, heap, ecb

vars == <<yield_data, analyzer, pca_results, stress_results, recon, first_fit,
          requests, cache, shared, heap, ecb>>

engineVars == <<yield_data, analyzer, pca_results, stress_results, recon, first_fit, ecb>>

webVars == <<requests, cache, shared, heap, ecb>>

\* ------------------------------------------------------------------ bounds
MaxObs == 4

MaxMat == 3

MaxScale == 2

MaxComp == 4

MaxUnit == 3

MaxWindow == 2

\* Estimators allocated by Excel exports in one behaviour.
MaxHeap == 2

\* Requests arrive while the cache holds at most this number of entries.
MaxCached == 1

MaxTimes == 2

MaxSeries == 2

\* Quantile levels are multiples of 1/QDen; 0.995 = 199/200.
QDen == 200

\* Config.STRESS_QUANTILE and the default of generate_scenarios, times QDen.
STRESS_QUANTILE == 199

\* ----------------------------------------------------------------- helpers
None == [none |-> TRUE]

Min(a, b) == IF a <= b THEN a ELSE b

Max(a, b) == IF a >= b THEN a ELSE b

\* The sum of the first n elements of s.
RECURSIVE SumTo(_, _)
SumTo(s, n) == IF n = 0 THEN 0 ELSE s[n] + SumTo(s, n - 1)

SumSeq(s) == SumTo(s, Len(s))

\* A vector and a matrix with every element computed (np.ndarray).
Vec(s) == s \o <<>>

Mat(rows) == [t \in 1..Len(rows) |-> Vec(rows[t])] \o <<>>

Column(mat, j) == [t \in 1..Len(mat) |-> mat[t][j]]

Take(s, n) == SubSeq(s, 1, Min(n, Len(s)))

Dot(u, v) == SumSeq([i \in 1..Len(u) |-> u[i] * v[i]])

RECURSIVE Insert(_, _)
Insert(x, s) ==
    IF s = <<>> THEN <<x>>
    ELSE IF x <= Head(s) THEN <<x>> \o s
    ELSE <<Head(s)>> \o Insert(x, Tail(s))

RECURSIVE SortAsc(_)
SortAsc(s) == IF s = <<>> THEN <<>> ELSE Insert(Head(s), SortAsc(Tail(s)))

\* ndarray.flatten()
RECURSIVE Flatten(_)
Flatten(rows) == IF rows = <<>> THEN <<>> ELSE Head(rows) \o Flatten(Tail(rows))

Raise(type, msg) == [raised |-> TRUE, type |-> type, msg |-> msg]

\* ------------------------------------------------------------------ panels
\* The column labels of a panel: 'SR_' followed by the tenor.
Label(tenor) == [prefix |-> "SR_", tenor |-> tenor]

Tenors == <<"1Y", "2Y", "5Y", "10Y", "20Y", "30Y">>

\* Helmert contrast i over n observations: i ones, then -i, then zeros.
Helmert(i, n) == [t \in 1..n |-> IF t <= i THEN 1 ELSE IF t = i + 1 THEN 0 - i ELSE 0]

\* A column is level + scale * contrast; contrast 0 is a constant column.
ColumnOf(c, n) == [t \in 1..n |-> c.level + (IF c.b = 0 THEN 0 ELSE c.c * Helmert(c.b, n)[t])]

Scales == {0 - 1, MaxScale}

\* Column j moves along contrast (j + shift) mod n, so that the columns of
\* a panel have different contrasts and different variances; the level
\* rises after the shortest tenor as in the demo data.
ColSpec(j, shift, scale, n) ==
    [level |-> IF j = 1 THEN 1 ELSE 2, b |-> (j + shift) % n, c |-> scale]

PanelOf(cs, n) ==
    [Date |-> [t \in 1..n |-> t],
     columns |-> [j \in 1..Len(cs) |-> Label(Tenors[j])],
     rows |-> Mat([t \in 1..n |-> [j \in 1..Len(cs) |-> ColumnOf(cs[j], n)[t]]])]

PanelsOf(n, m) ==
    IF m > n THEN {}
    ELSE { PanelOf([j \in 1..m |-> ColSpec(j, shift, scale[j], n)], n) :
             shift \in 0..(n - 1), scale \in [1..m -> Scales] }

\* The totally degenerate panel: every observation is the same curve.
FlatPanel(n, m) == PanelOf([j \in 1..m |-> [level |-> IF j = 1 THEN 1 ELSE 2, b |-> 0, c |-> 0]], n)

Panels ==
    UNION { PanelsOf(n, m) : n \in 3..MaxObs, m \in 2..MaxMat }
        \cup { FlatPanel(n, MaxMat) : n \in 3..MaxObs }

\* pd.DataFrame(): no rows and no columns.
EmptyFrame == [Date |-> <<>>, columns |-> <<>>, rows |-> <<>>]

\* ------------------------------------------------- services/pca_analysis.py
\* PCAAnalyzer.__init__
PCAAnalyzer(n_components) ==
    [n_components |-> n_components, pca |-> None, mean_curve |-> None, maturities |-> None]

\* maturity_cols = [col for col in yield_data.columns if col.startswith('SR_')]
maturity_cols(yd) == { j \in 1..Len(yd.columns) : yd.columns[j].prefix = "SR_" }

\* [col.replace('SR_', '') for col in maturity_cols]
MaturitiesOf(yd) == [j \in 1..Len(yd.columns) |-> yd.columns[j].tenor]

NObs(yd) == Len(yd.rows)

NMat(yd) == Len(yd.columns)

\* np.mean(yield_matrix, axis=0); exact on the panels of the model.
MeanCurve(mat) == Vec([j \in 1..Len(mat[1]) |-> SumSeq(Column(mat, j)) \div Len(mat)])

MeanIsExact(mat) == \A j \in 1..Len(mat[1]) : SumSeq(Column(mat, j)) % Len(mat) = 0

Center(mat, mean) ==
    Mat([t \in 1..Len(mat) |-> [j \in 1..Len(mat[t]) |-> mat[t][j] - mean[j]]])

SumSq(mat, j) == SumSeq([t \in 1..Len(mat) |-> mat[t][j] * mat[t][j]])

\* The sums of squares of the columns.
SumSqs(mat) == Vec([j \in 1..Len(mat[1]) |-> SumSq(mat, j)])

\* The covariance of the centred columns is diagonal.
Uncorrelated(mat) ==
    \A i, j \in 1..Len(mat[1]) : i # j => Dot(Column(mat, i), Column(mat, j)) = 0

\* Singular values in descending order: position of column j among the
\* columns, by descending sum of squares (ties keep the column order).
RankOf(ss, j) ==
    1 + Cardinality({ i \in 1..Len(ss) : ss[i] > ss[j] \/ (ss[i] = ss[j] /\ i < j) })

ColumnAt(ss, r) == CHOOSE j \in 1..Len(ss) : RankOf(ss, j) = r

UnitVector(j, m) == [i \in 1..m |-> IF i = j THEN 1 ELSE 0]

TotalVar(mat) == SumSeq(SumSqs(mat))

Ratio(num, den) == [num |-> num, den |-> den]

IsNaN(r) == r.den = 0

\* sklearn.decomposition.PCA(n_components): an estimator that is not fitted.
PCA(n_components) == [fitted |-> FALSE, n_components |-> n_components]

\* The variance of the retained components only.
total_var_retained(ss, order) == SumSeq([i \in 1..Len(order) |-> ss[order[i]]])

\* total_var of PCA._fit_full: the sum of the variances of all components,
\* taken before the truncation to n_components.
total_var(ss, order) == SumSeq(ss)

\* PCA.fit on x (n observations by m features), full SVD solver: the
\* estimator after the fit.  x is centred by the estimator's own mean_.
PCAFit(n_components, x) ==
    LET mean_ == MeanCurve(x)
        xc == Center(x, mean_)
        m == Len(x[1])
        ss == SumSqs(xc)
        order == Vec([i \in 1..n_components |-> ColumnAt(ss, i)])
        total == total_var(ss, order)
    IN  [fitted |-> TRUE,
         n_components |-> n_components,
         n_components_ |-> n_components,
         mean_ |-> mean_,
         components_ |-> Mat([i \in 1..n_components |-> UnitVector(order[i], m)]),
         explained_variance_ratio_ |-> [i \in 1..n_components |-> Ratio(ss[order[i]], total)]]

\* PCA.transform: (x - mean_) @ components_.T
PCATransform(model, x) ==
    Mat([t \in 1..Len(x) |->
            [i \in 1..model.n_components_ |->
                Dot([j \in 1..Len(x[t]) |-> x[t][j] - model.mean_[j]], model.components_[i])]])

\* sklearn rejects n_components above min(n_samples, n_features).
FitRejects(n_components, x) == n_components > Min(Len(x), Len(x[1]))

\* np.cumsum(variance_explained)
RECURSIVE CumSum(_)
\* The explained variance itself, not summed.
CumSum_dropped(s) == s

CumSum(s) ==
    IF s = <<>> THEN <<>>
    ELSE LET front == CumSum(SubSeq(s, 1, Len(s) - 1))
             last == s[Len(s)]
         IN  IF front = <<>> THEN <<last>>
             ELSE Append(front, Ratio(front[Len(front)].num + last.num, last.den))

\* A fit whose loadings change sign from one fit of the analyzer to the
\* next.
fit_transform_alternating(self, x) ==
    LET model == PCAFit(self.n_components, x)
    IN  IF self.pca = None THEN model
        ELSE [model EXCEPT !.components_ =
                 Mat([i \in 1..Len(model.components_) |->
                         [j \in 1..Len(model.components_[i]) |-> 0 - model.components_[i][j]]])]

\* self.pca.fit_transform(centered_data) on the estimator created at line
\* 57: nothing of an earlier fit of the analyzer enters.
fit_transform(self, x) == PCAFit(self.n_components, x)

\* PCAAnalyzer.perform_pca: the analyzer after the call and what the call
\* returns or raises.
perform_pca(self, yd) ==
    IF yd = EmptyFrame THEN [self |-> self, out |-> Raise("KeyError", "Date")] ELSE
    LET yield_matrix == yd.rows
        s1 == [self EXCEPT !.maturities = MaturitiesOf(yd)]
        s2 == [s1 EXCEPT !.mean_curve = MeanCurve(yield_matrix)]
        centered_data == Center(yield_matrix, s2.mean_curve)
        s3 == [s2 EXCEPT !.pca = PCA(self.n_components)]
    IN  IF FitRejects(self.n_components, centered_data)
        THEN [self |-> s3,
              out |-> Raise("ValueError", "n_components must be between 0 and min(n_samples, n_features)")]
        ELSE
        LET s4 == [s3 EXCEPT !.pca = fit_transform(self, centered_data)]
            scores == PCATransform(s4.pca, centered_data)
            variance_explained == s4.pca.explained_variance_ratio_
            cumulative_variance == CumSum(variance_explained)
        IN  IF Len(cumulative_variance) < 3
            THEN [self |-> s4,
                  out |-> Raise("IndexError", "index 2 is out of bounds")]
            ELSE [self |-> s4,
                  out |-> [raised |-> FALSE,
                           pca_model |-> s4.pca,
                           scores |-> scores,
                           dates |-> yd.Date,
                           yield_matrix |-> yield_matrix,
                           mean_curve |-> s4.mean_curve,
                           variance_explained |-> variance_explained,
                           cumulative_variance |-> cumulative_variance,
                           yield_curve_plot |-> [x |-> yd.Date, y |-> s4.maturities],
                           pc_plot |-> [x |-> s4.maturities,
                                        y |-> Take(s4.pca.components_, 5)]]]

\* scores[:, :n] @ components_[:n] + mean_curve
ReconstructFrom(pca, mean_curve, scores, n_components) ==
    IF ~pca.fitted
    THEN Raise("AttributeError", "'PCA' object has no attribute 'components_'")
    ELSE
    LET components == Take(pca.components_, n_components)
        scores_subset == [t \in 1..Len(scores) |-> Take(scores[t], n_components)]
        m == Len(mean_curve)
    IN  IF \/ \E t \in 1..Len(scores) : Len(scores_subset[t]) # Len(components)
           \/ \E i \in 1..Len(components) : Len(components[i]) # m
        THEN Raise("ValueError", "matmul or broadcast: shapes do not match")
        ELSE
        [raised |-> FALSE,
         value |-> [t \in 1..Len(scores) |->
                      [j \in 1..m |->
                          SumSeq([i \in 1..Len(components) |->
                                     scores_subset[t][i] * components[i][j]])
                              + mean_curve[j]]]]

\* reconstruct_yield_curve without its check that a fit has happened.
reconstruct_unguarded(self, scores, n_components) ==
    IF self.pca = None
    THEN Raise("AttributeError", "'NoneType' object has no attribute 'components_'")
    ELSE ReconstructFrom(self.pca, self.mean_curve, scores, n_components)

\* reconstruct_yield_curve that leaves the mean curve out.
reconstruct_without_mean(self, scores, n_components) ==
    IF self.pca = None \/ self.mean_curve = None
    THEN Raise("ValueError", "PCA must be fitted before reconstruction")
    ELSE ReconstructFrom(self.pca, [j \in 1..Len(self.mean_curve) |-> 0], scores, n_components)

\* PCAAnalyzer.reconstruct_yield_curve
reconstruct_yield_curve(self, scores, n_components) ==
    IF self.pca = None \/ self.mean_curve = None
    THEN Raise("ValueError", "PCA must be fitted before reconstruction")
    ELSE ReconstructFrom(self.pca, self.mean_curve, scores, n_components)

\* --------------------------------------------- services/stress_scenarios.py
\* Position of row t when the rows are ordered by ascending date.
DateRank(dates, t) ==
    1 + Cardinality({ u \in 1..Len(dates) :
                        dates[u] < dates[t] \/ (dates[u] = dates[t] /\ u < t) })

\* The rows left in the order of the input.
sort_index_absent(dates) == [r \in 1..Len(dates) |-> r]

\* DataFrame.sort_index(): the row numbers in ascending date order.
sort_index(dates) ==
    [r \in 1..Len(dates) |-> CHOOSE t \in 1..Len(dates) : DateRank(dates, t) = r]

\* The difference to the row before, whatever the lag.
rolling_diff_adjacent(sc, unit) ==
    [d \in 1..Max(0, Len(sc) - unit) |->
        [i \in 1..Len(sc[d]) |-> sc[d + unit][i] - sc[d + unit - 1][i]]]

\* DataFrame.diff(periods=unit).dropna(): rows unit+1..n of the sorted frame.
rolling_diff(sc, unit) ==
    [d \in 1..Max(0, Len(sc) - unit) |->
        [i \in 1..Len(sc[d]) |-> sc[d + unit][i] - sc[d][i]]]

\* The sign separation left out: negative moves stay in the up series.
ClipUp_kept(x) == x

\* rolling_diff_up[rolling_diff_up < 0] = 0
ClipUp(x) == IF x < 0 THEN 0 ELSE x

\* rolling_diff_down[rolling_diff_down > 0] = 0
ClipDown(x) == IF x > 0 THEN 0 ELSE x

\* The quantile without interpolation: the lower order statistic.
Quantile_lower(v, qnum) ==
    LET sorted == SortAsc(v)
        idx == ((Len(v) - 1) * qnum) \div QDen
    IN  sorted[idx + 1] * QDen

\* Quantile at level qnum/QDen of the values v, linear interpolation between
\* order statistics as in pandas' rolling quantile; the result times QDen.
Quantile(v, qnum) ==
    LET sorted == SortAsc(v)
        pos == (Len(v) - 1) * qnum
        idx == pos \div QDen
        frac == pos - idx * QDen
    IN  IF frac = 0 THEN sorted[idx + 1] * QDen
        ELSE sorted[idx + 1] * QDen + (sorted[idx + 2] - sorted[idx + 1]) * frac

\* frame.rolling(window=window_size, min_periods=1).quantile(level)
rolling_quantile(frame, window_size, qnum) ==
    [d \in 1..Len(frame) |->
        [i \in 1..Len(frame[d]) |->
            Quantile([w \in 1..Min(d, window_size) |-> frame[d - Min(d, window_size) + w][i]],
                     qnum)]]

\* The stress written one position too far: factor pc_num + 1, or factor 1
\* for the last one.
modified_scores_shifted(pc_num, base_scores, stressed_up, stressed_down) ==
    [base_scores |-> base_scores,
     scores_up |-> [base_scores EXCEPT ![(pc_num % 3) + 1] = stressed_up[(pc_num % 3) + 1]],
     scores_down |-> [base_scores EXCEPT ![(pc_num % 3) + 1] = stressed_down[(pc_num % 3) + 1]]]

\* The modified scores built on base_scores itself, without the copies: the
\* three names are one array, written twice.
modified_scores_aliased(pc_num, base_scores, stressed_up, stressed_down) ==
    [base_scores |-> [base_scores EXCEPT ![pc_num] = stressed_down[pc_num]],
     scores_up |-> [base_scores EXCEPT ![pc_num] = stressed_down[pc_num]],
     scores_down |-> [base_scores EXCEPT ![pc_num] = stressed_down[pc_num]]]

\* _generate_pc_scenario, lines 155-160: the caller's array after the two
\* copies have been written, and the two copies.
modified_scores(pc_num, base_scores, stressed_up, stressed_down) ==
    [base_scores |-> base_scores,
     scores_up |-> [base_scores EXCEPT ![pc_num] = stressed_up[pc_num]],
     scores_down |-> [base_scores EXCEPT ![pc_num] = stressed_down[pc_num]]]

\* StressScenarioGenerator._generate_pc_scenario; score vectors and curves
\* are in units of 1/QDen.
generate_pc_scenario(pc_num, base_scores, stressed_up, stressed_down, pca_model, mean_curve, original_curve, maturities) ==
    LET written == modified_scores(pc_num, base_scores, stressed_up, stressed_down)
        scores_up == written.scores_up
        scores_down == written.scores_down
        n_comp == Min(Min(4, pca_model.n_components_), Len(base_scores))
        components == Take(pca_model.components_, n_comp)
        curve(sv) == [j \in 1..Len(mean_curve) |->
                         SumSeq([i \in 1..n_comp |-> sv[i] * components[i][j]])
                             + QDen * mean_curve[j]]
    IN  [original |-> original_curve,
         up |-> curve(scores_up),
         down |-> curve(scores_down),
         maturities |-> maturities]

\* generate_scenarios, lines 110-122: the three calls of
\* _generate_pc_scenario in turn, each on the array latest_scores as the
\* call before it left it.
score_vectors(latest_scores, latest_scores_up, latest_scores_down) ==
    LET pc1 == modified_scores(1, latest_scores, latest_scores_up, latest_scores_down)
        pc2 == modified_scores(2, pc1.base_scores, latest_scores_up, latest_scores_down)
        pc3 == modified_scores(3, pc2.base_scores, latest_scores_up, latest_scores_down)
    IN  <<pc1, pc2, pc3>>

\* generate_scenarios, lines 97-136: the scenarios of the latest date of
\* the series and the dictionary that is returned.
latest_scenarios(pr, yd, valid_idx, scores_aligned, stressed_scores_up, stressed_scores_down, rolling_quantile_up, rolling_quantile_down) ==
    LET last == Len(valid_idx)
        latest_idx == valid_idx[last]
        latest_scores == Vec([i \in 1..3 |-> QDen * scores_aligned[last][i]])
        latest_scores_up == stressed_scores_up[last]
        latest_scores_down == stressed_scores_down[last]
        maturities == MaturitiesOf(yd)
        latest_rows == SelectSeq([t \in 1..Len(yd.rows) |->
                                     [date |-> yd.Date[t], row |-> yd.rows[t]]],
                                 LAMBDA r : r.date = latest_idx)
        original_curve == Flatten([r \in 1..Len(latest_rows) |->
                                      [j \in 1..Len(latest_rows[r].row) |->
                                          QDen * latest_rows[r].row[j]]])
        vectors == score_vectors(latest_scores, latest_scores_up, latest_scores_down)
        latest_before == <<latest_scores, vectors[1].base_scores, vectors[2].base_scores>>
    IN  [raised |-> FALSE,
         valid_idx |-> valid_idx,
         scores_aligned |-> scores_aligned,
         stressed_scores_up |-> stressed_scores_up,
         stressed_scores_down |-> stressed_scores_down,
         rolling_quantile_up |-> rolling_quantile_up,
         rolling_quantile_down |-> rolling_quantile_down,
         scenarios |-> [pc_num \in 1..3 |->
                          generate_pc_scenario(pc_num, latest_before[pc_num], latest_scores_up,
                                               latest_scores_down, pr.pca_model,
                                               pr.mean_curve, original_curve,
                                               maturities)],
         latest_date |-> latest_idx,
         score_vectors |-> vectors]

\* StressScenarioGenerator.generate_scenarios: what the call returns or raises.
generate_scenarios(pr, yd, qnum, rolling_window, unit) ==
    LET scores == pr.scores
        dates == pr.dates
    IN  IF \E t \in 1..Len(scores) : Len(scores[t]) < 3
        THEN Raise("ValueError", "Shape of passed values does not match 3 columns")
        ELSE
        LET order == sort_index(dates)
            df_scores == [r \in 1..Len(scores) |-> Take(scores[order[r]], 3)]
            df_index == [r \in 1..Len(scores) |-> dates[order[r]]]
            diff == rolling_diff(df_scores, unit)
            rolling_diff_up == [d \in 1..Len(diff) |-> [i \in 1..3 |-> ClipUp(diff[d][i])]]
            rolling_diff_down == [d \in 1..Len(diff) |-> [i \in 1..3 |-> ClipDown(diff[d][i])]]
            window_size == rolling_window * unit
            rolling_quantile_up == rolling_quantile(rolling_diff_up, window_size, qnum)
            rolling_quantile_down == rolling_quantile(rolling_diff_down, window_size, QDen - qnum)
            valid_idx == [d \in 1..Len(diff) |-> df_index[d + unit]]
            scores_aligned == [d \in 1..Len(diff) |-> df_scores[d + unit]]
            stressed_scores_up ==
                [d \in 1..Len(diff) |->
                    [i \in 1..3 |-> QDen * scores_aligned[d][i] + rolling_quantile_up[d][i]]]
            stressed_scores_down ==
                [d \in 1..Len(diff) |->
                    [i \in 1..3 |-> QDen * scores_aligned[d][i] + rolling_quantile_down[d][i]]]
        IN  IF Len(diff) = 0
            THEN Raise("IndexError", "index -1 is out of bounds for axis 0 with size 0")
            ELSE latest_scenarios(pr, yd, valid_idx, scores_aligned, stressed_scores_up,
                                  stressed_scores_down, rolling_quantile_up,
                                  rolling_quantile_down)

\* ------------------------------------------------------- config.py, app.py
N_COMPONENTS == 5

ROLLING_WINDOW_MONTHS == 24

\* Default of the parameter unit of generate_scenarios.
DefaultUnit == 30

\* Default of the parameter n_components of PCAAnalyzer.
DefaultComponents == 5

Threads == {1, 2}

\* JSON values of a request body.
JNull == [kind |-> "null", text |-> "", num |-> 0]

JStr(text) == [kind |-> "str", text |-> text, num |-> 0]

\* A JSON number; a quantile is given in units of 1/QDen.
JNum(num) == [kind |-> "num", text |-> "", num |-> num]

Some(v) == [some |-> v]

\* The date strings of the model and what strptime('%Y-%m-%d') makes of them.
DateTexts == {"2020-01-01", "2020-06-30", "2020-12-31"}

strptime(text) ==
    CASE text = "2020-01-01" -> [ok |-> TRUE, ymd |-> <<2020, 1, 1>>]
      [] text = "2020-06-30" -> [ok |-> TRUE, ymd |-> <<2020, 6, 30>>]
      [] text = "2020-12-31" -> [ok |-> TRUE, ymd |-> <<2020, 12, 31>>]
      [] OTHER -> [ok |-> FALSE, ymd |-> <<>>]

\* datetime comparison start >= end
DateGE(a, b) ==
    \/ a[1] > b[1]
    \/ (a[1] = b[1] /\ a[2] > b[2])
    \/ (a[1] = b[1] /\ a[2] = b[2] /\ a[3] >= b[3])

\* data.get(name) is None, or '' for a date
Falsy(v) == v.kind = "null" \/ (v.kind = "str" /\ v.text = "")

Reply(status, error) == [ok |-> FALSE, status |-> status, error |-> error]

\* Validation of the dates of a request.
validate_dates(body, args) ==
    IF Falsy(body.start_date) \/ Falsy(body.end_date)
    THEN Reply(400, "Start and end dates are required")
    ELSE IF ~strptime(body.start_date.text).ok \/ ~strptime(body.end_date.text).ok
    THEN Reply(400, "Invalid date format. Use YYYY-MM-DD")
    ELSE IF DateGE(strptime(body.start_date.text).ymd, strptime(body.end_date.text).ymd)
    THEN Reply(400, "Start date must be before end date")
    ELSE [ok |-> TRUE, args |-> args]

\* rolling_window = int(rolling_window), 1..120
validate_window(body, args) ==
    IF body.rolling_window.kind = "null"
    THEN validate_dates(body, args)
    ELSE IF body.rolling_window.kind = "str"
    THEN Reply(404, "invalid literal for int()")
    ELSE IF body.rolling_window.num < 1 \/ body.rolling_window.num > 120
    THEN Reply(400, "Rolling window must be between 1 and 120 months")
    ELSE validate_dates(body, [args EXCEPT !.rolling_window = Some(body.rolling_window.num)])

\* stress_quantile = float(stress_quantile), 0.5..0.999
validate_quantile(body, args) ==
    IF body.stress_quantile.kind = "null"
    THEN validate_window(body, args)
    ELSE IF body.stress_quantile.kind = "str"
    THEN Reply(404, "could not convert string to float")
    ELSE IF 2 * body.stress_quantile.num < QDen \/ 1000 * body.stress_quantile.num > 999 * QDen
    THEN Reply(400, "Stress quantile must be between 0.5 and 0.999")
    ELSE validate_window(body, [args EXCEPT !.stress_quantile = Some(body.stress_quantile.num)])

\* analyze, lines 109-145: the reply that ends the request, or the
\* arguments with which the cached analysis is called.  A ValueError of
\* int() or float() reaches the handler of line 159.
analyze_validate(body) ==
    LET args == [start_date |-> body.start_date.text, end_date |-> body.end_date.text,
                 n_components |-> None, stress_quantile |-> None, rolling_window |-> None]
    IN  IF body.n_components.kind = "null"
        THEN validate_quantile(body, args)
        ELSE IF body.n_components.kind = "str"
        THEN Reply(404, "invalid literal for int()")
        ELSE IF body.n_components.num < 1 \/ body.n_components.num > 10
        THEN Reply(400, "Number of components must be between 1 and 10")
        ELSE validate_quantile(body, [args EXCEPT !.n_components = Some(body.n_components.num)])

\* export_csv and export_excel, lines 219-224 and 259-264.
export_validate(body) ==
    IF Falsy(body.start_date) \/ Falsy(body.end_date)
    THEN Reply(400, "Start and end dates are required")
    ELSE [ok |-> TRUE,
          args |-> [start_date |-> body.start_date.text, end_date |-> body.end_date.text,
                    n_components |-> None, stress_quantile |-> None, rolling_window |-> None]]

\* x or default
OrDefault(opt, default) == IF opt = None THEN default ELSE IF opt.some = 0 THEN default ELSE opt.some

\* The panels the data source holds: 31 and 6 observations of 5 maturities.
WebPanel(n, shift, scale) ==
    PanelOf([j \in 1..5 |-> [ColSpec(j, shift, scale, n) EXCEPT !.level = @ + shift]], n)

PanelA == WebPanel(DefaultUnit + 1, 0, 0 - 1)

PanelB == WebPanel(DefaultUnit + 1, 1, 2)

ShortPanel == WebPanel(6, 0, 1)

\* ecb_service.fetch_yield_curve(start_date, end_date): what the call may
\* return or raise.
FetchOutcomes(start_date, end_date) ==
    LET failure == Raise("Exception", "Failed to fetch data from ECB")
    IN  IF ~strptime(start_date).ok \/ ~strptime(end_date).ok THEN {failure}
        ELSE IF start_date = "2020-01-01" /\ end_date = "2020-12-31" THEN {PanelA, failure}
        ELSE IF start_date = "2020-06-30" /\ end_date = "2020-12-31" THEN {PanelB, failure}
        ELSE IF start_date = "2020-01-01" /\ end_date = "2020-06-30"
        THEN {ShortPanel, EmptyFrame, failure}
        ELSE {EmptyFrame, failure}

IsRaise(x) == "raised" \in DOMAIN x /\ x.raised

\* _perform_analysis_cached, lines 55-98, after the fetch of line 63: the
\* services that were called (did) and what the function returns or raises.
perform_analysis(yd, args) ==
    LET n_components == OrDefault(args.n_components, N_COMPONENTS)
        stress_quantile == OrDefault(args.stress_quantile, STRESS_QUANTILE)
        rolling_window == OrDefault(args.rolling_window, ROLLING_WINDOW_MONTHS)
    IN  IF yd = EmptyFrame \/ yd.rows = <<>>
        THEN [did |-> {},
              out |-> Raise("ValueError", "No data available for the selected period")]
        ELSE
        LET pr == perform_pca(PCAAnalyzer(n_components), yd).out
        IN  IF pr.raised THEN [did |-> {"pca"}, out |-> pr]
            ELSE
            LET st == generate_scenarios(pr, yd, stress_quantile, rolling_window, DefaultUnit)
            IN  IF st.raised THEN [did |-> {"pca", "stress"}, out |-> st]
                ELSE [did |-> {"pca", "stress"}, out |->
                     [raised |-> FALSE,
                      yield_curve |-> pr.yield_curve_plot,
                      principal_components |-> pr.pc_plot,
                      explained_variance |-> [bars |-> pr.variance_explained,
                                              line |-> pr.cumulative_variance],
                      stressed_scores |-> [up |-> st.stressed_scores_up,
                                           down |-> st.stressed_scores_down],
                      stress_scenarios |-> st.scenarios,
                      statistics |-> [n_observations |-> NObs(yd),
                                      date_range |-> [start |-> args.start_date,
                                                      end |-> args.end_date],
                                      variance_explained |-> pr.variance_explained]]]

\* Well-formed requests of concurrent clients.
ConcurrentBodies ==
    [start_date : {JStr("2020-01-01"), JStr("2020-06-30")}, end_date : {JStr("2020-12-31")},
     n_components : {JNull, JNum(3)}, stress_quantile : {JNull}, rolling_window : {JNull},
     unit : {JNull}]

\* A period for which the data source has few observations or none.
ShortBodies ==
    [start_date : {JStr("2020-01-01")}, end_date : {JStr("2020-06-30")},
     n_components : {JNull}, stress_quantile : {JNull}, rolling_window : {JNull},
     unit : {JNull}]

DatesOnly(bodies) ==
    { b \in bodies : b.n_components = JNull /\ b.stress_quantile = JNull
                       /\ b.rolling_window = JNull /\ b.unit = JNull }

\* Any request body: each field absent, malformed, out of range or valid;
\* unit is the option of the configuration that no endpoint reads.
AllBodies ==
    [start_date : {JNull, JStr("invalid-date"), JStr("2020-01-01"), JStr("2020-12-31")},
     end_date : {JNull, JStr("2020-06-30"), JStr("2020-12-31")},
     n_components : {JNull, JStr("abc"), JNum(0), JNum(3)},
     stress_quantile : {JNull, JNum(60), JNum(150)},
     rolling_window : {JNull, JNum(0), JNum(1)},
     unit : {JNull, JNum(2)}]

\* The arguments with which the endpoints call the cached analysis.
CallArgs ==
    { analyze_validate(b).args : b \in { x \in AllBodies \cup ConcurrentBodies :
                                             analyze_validate(x).ok } }
        \cup { export_validate(b).args : b \in { x \in DatesOnly(AllBodies \cup ConcurrentBodies) :
                                                    export_validate(x).ok } }

\* perform_analysis on every panel the data source returns for the
\* arguments of a call.
Analyses ==
    [k \in UNION { { [yd |-> o, args |-> a] :
                        o \in { x \in FetchOutcomes(a.start_date, a.end_date) : ~IsRaise(x) } } :
                    a \in CallArgs }
        |-> perform_analysis(k.yd, k.args)]

\* ------------------------------------------- request threads (SpecWeb, SpecRequest)
NoBody == [start_date |-> JNull, end_date |-> JNull, n_components |-> JNull,
           stress_quantile |-> JNull, rolling_window |-> JNull, unit |-> JNull]

Idle == [pc |-> "idle", endpoint |-> "none", body |-> NoBody, args |-> None,
         status |-> 0, error |-> "", did |-> {}, yield_data |-> None, rv |-> None,
         loc |-> None, workbook |-> None]

Finish(r, status, error) == [r EXCEPT !.pc = "done", !.status = status, !.error = error]

\* The except clauses of the endpoints: analyze answers a ValueError with
\* 404 and anything else with 500, the exports answer 500.
ErrorReply(r, e) ==
    IF r.endpoint = "analyze" /\ e.type = "ValueError"
    THEN Finish(r, 404, e.msg)
    ELSE Finish(r, 500, e.msg)

\* POST /api/analyze up to the call of the cached analysis.
Analyze(t, body) ==
    LET v == analyze_validate(body)
        r == [requests[t] EXCEPT !.endpoint = "analyze", !.body = body]
    IN  /\ requests[t].pc = "idle"
        /\ Cardinality(cache) <= MaxCached
        /\ requests' = [requests EXCEPT ![t] =
                           IF v.ok THEN [r EXCEPT !.pc = "memo_get", !.args = v.args]
                           ELSE Finish(r, v.status, v.error)]
        /\ UNCHANGED <<cache, shared, heap>>
        /\ UNCHANGED engineVars

\* POST /api/export/csv and /api/export/excel up to the cached analysis.
Export(t, endpoint, body) ==
    LET v == export_validate(body)
        r == [requests[t] EXCEPT !.endpoint = endpoint, !.body = body]
    IN  /\ requests[t].pc = "idle"
        /\ Cardinality(cache) <= MaxCached
        /\ endpoint = "export_excel" => Len(heap) < MaxHeap
        /\ requests' = [requests EXCEPT ![t] =
                           IF v.ok THEN [r EXCEPT !.pc = "memo_get", !.args = v.args]
                           ELSE Finish(r, v.status, v.error)]
        /\ UNCHANGED <<cache, shared, heap>>
        /\ UNCHANGED engineVars

\* POST /api/cache/clear
ClearCache(t) ==
    /\ requests[t].pc = "idle"
    /\ cache' = {}
    /\ requests' = [requests EXCEPT ![t] =
                       Finish([requests[t] EXCEPT !.endpoint = "clear_cache"], 200, "")]
    /\ UNCHANGED <<shared, heap>>
    /\ UNCHANGED engineVars

\* A cache key made of the two dates only.
memoize_key_dates(args) == <<args.start_date, args.end_date, None, None, None>>

\* The cache key of memoize: the arguments of the call, the parameters
\* that the caller left out included with their default None.
memoize_key(args) ==
    <<args.start_date, args.end_date, args.n_components, args.stress_quantile,
      args.rolling_window>>

\* After the cached analysis has returned rv.
Returned(r, rv) ==
    IF r.endpoint = "analyze"
    THEN Finish([r EXCEPT !.rv = rv], 200, "")
    ELSE [r EXCEPT !.rv = rv, !.pc = "x_fetch"]

\* cache.memoize: look the arguments up; a hit returns the cached value.
MemoGet(t) ==
    LET r == requests[t]
        hits == { e \in cache : e.key = memoize_key(r.args) }
    IN  /\ r.pc = "memo_get"
        /\ requests' = [requests EXCEPT ![t] =
                           IF hits # {} THEN Returned(r, (CHOOSE e \in hits : TRUE).value)
                           ELSE [r EXCEPT !.pc = "fetch"]]
        /\ UNCHANGED <<cache, shared, heap>>
        /\ UNCHANGED engineVars

\* _perform_analysis_cached, line 63: the fetch from the data source.
Fetch(t, outcome) ==
    LET r == [requests[t] EXCEPT !.did = @ \cup {"fetch"}]
    IN  /\ requests[t].pc = "fetch"
        /\ outcome \in FetchOutcomes(r.args.start_date, r.args.end_date)
        /\ requests' = [requests EXCEPT ![t] =
                           IF IsRaise(outcome) THEN ErrorReply(r, outcome)
                           ELSE [r EXCEPT !.pc = "engine", !.yield_data = outcome]]
        /\ UNCHANGED <<cache, shared, heap>>
        /\ UNCHANGED engineVars

\* A memoize that also stores what a failed call raised.
memoize_set_failures(c, key, rv) ==
    { e \in c : e.key # key } \cup {[key |-> key, value |-> rv]}

\* memoize stores the value of a call that returned; a call that raised
\* leaves the cache as it is.
memoize_set(c, key, rv) ==
    IF rv.raised THEN c
    ELSE { e \in c : e.key # key } \cup {[key |-> key, value |-> rv]}

\* _perform_analysis_cached, lines 65-98, and memoize's cache.set of the
\* value returned.
Engine(t) ==
    LET r0 == requests[t]
        call == Analyses[[yd |-> r0.yield_data, args |-> r0.args]]
        rv == call.out
        r == [r0 EXCEPT !.did = @ \cup call.did]
    IN  /\ r0.pc = "engine"
        /\ requests' = [requests EXCEPT ![t] =
                           IF rv.raised THEN ErrorReply(r, rv)
                           ELSE Returned([r EXCEPT !.did = @ \cup {"cache_set"}], rv)]
        /\ cache' = memoize_set(cache, memoize_key(r.args), rv)
        /\ UNCHANGED <<shared, heap>>
        /\ UNCHANGED engineVars

LocInit(yd) ==
    [dates |-> yd.Date, yield_matrix |-> yd.rows, centered_data |-> None, scores |-> None,
     variance_explained |-> None, cumulative_variance |-> None,
     yield_curve_plot |-> None, pc_plot |-> None, results |-> None]

\* export_csv line 232, export_excel line 272: the panel is fetched again;
\* export_csv then answers with the panel as CSV.
ExportFetch(t, outcome) ==
    LET r == [requests[t] EXCEPT !.did = @ \cup {"fetch"}]
    IN  /\ requests[t].pc = "x_fetch"
        /\ outcome \in FetchOutcomes(r.args.start_date, r.args.end_date)
        /\ requests' = [requests EXCEPT ![t] =
                           IF IsRaise(outcome) THEN ErrorReply(r, outcome)
                           ELSE IF r.endpoint = "export_csv"
                           THEN Finish([r EXCEPT !.yield_data = outcome,
                                                 !.workbook = [csv |-> outcome]], 200, "")
                           ELSE [r EXCEPT !.pc = "p50", !.yield_data = outcome]]
        /\ UNCHANGED <<cache, shared, heap>>
        /\ UNCHANGED engineVars

\* export_excel line 275 runs perform_pca on the module-level pca_analyzer;
\* the steps below are the statements of perform_pca that read or write its
\* fields.  Lines 45-50: self.maturities is written.
P50(t) ==
    LET r == requests[t]
    IN  /\ r.pc = "p50"
        /\ IF r.yield_data = EmptyFrame
           THEN /\ requests' = [requests EXCEPT ![t] = ErrorReply(r, Raise("KeyError", "Date"))]
                /\ UNCHANGED shared
           ELSE /\ requests' = [requests EXCEPT ![t] =
                                   [r EXCEPT !.pc = "p53", !.loc = LocInit(r.yield_data),
                                             !.did = @ \cup {"pca"}]]
                /\ shared' = [shared EXCEPT !.maturities = MaturitiesOf(r.yield_data)]
        /\ UNCHANGED <<cache, heap>>
        /\ UNCHANGED engineVars

\* Line 53: self.mean_curve = np.mean(yield_matrix, axis=0)
P53(t) ==
    LET r == requests[t]
    IN  /\ r.pc = "p53"
        /\ shared' = [shared EXCEPT !.mean_curve = MeanCurve(r.loc.yield_matrix)]
        /\ requests' = [requests EXCEPT ![t] = [r EXCEPT !.pc = "p54"]]
        /\ UNCHANGED <<cache, heap>>
        /\ UNCHANGED engineVars

\* Line 54: centered_data = yield_matrix - self.mean_curve
P54(t) ==
    LET r == requests[t]
    IN  /\ r.pc = "p54"
        /\ requests' = [requests EXCEPT ![t] =
               IF Len(shared.mean_curve) # Len(r.loc.yield_matrix[1])
               THEN ErrorReply(r, Raise("ValueError", "operands could not be broadcast together"))
               ELSE [r EXCEPT !.pc = "p57",
                              !.loc.centered_data = Center(r.loc.yield_matrix, shared.mean_curve)]]
        /\ UNCHANGED <<cache, shared, heap>>
        /\ UNCHANGED engineVars

\* Line 57: self.pca = PCA(n_components=self.n_components), a new estimator.
P57(t) ==
    LET r == requests[t]
    IN  /\ r.pc = "p57"
        /\ heap' = Append(heap, PCA(shared.n_components))
        /\ shared' = [shared EXCEPT !.pca = Some(Len(heap) + 1)]
        /\ requests' = [requests EXCEPT ![t] = [r EXCEPT !.pc = "p58"]]
        /\ UNCHANGED cache
        /\ UNCHANGED engineVars

\* Line 58: scores = self.pca.fit_transform(centered_data), on the estimator
\* that self.pca refers to now.
P58(t) ==
    LET r == requests[t]
        ref == shared.pca.some
        fit == PCAFit(heap[ref].n_components, r.loc.centered_data)
    IN  /\ r.pc = "p58"
        /\ IF FitRejects(heap[ref].n_components, r.loc.centered_data)
           THEN /\ requests' = [requests EXCEPT ![t] =
                       ErrorReply(r, Raise("ValueError",
                           "n_components must be between 0 and min(n_samples, n_features)"))]
                /\ UNCHANGED heap
           ELSE /\ heap' = [heap EXCEPT ![ref] = fit]
                /\ requests' = [requests EXCEPT ![t] =
                       [r EXCEPT !.pc = "p61",
                                 !.loc.scores = PCATransform(fit, r.loc.centered_data)]]
        /\ UNCHANGED <<cache, shared>>
        /\ UNCHANGED engineVars

\* Lines 61-64: variance_explained = self.pca.explained_variance_ratio_
P61(t) ==
    LET r == requests[t]
        obj == heap[shared.pca.some]
    IN  /\ r.pc = "p61"
        /\ requests' = [requests EXCEPT ![t] =
               IF ~obj.fitted
               THEN ErrorReply(r, Raise("AttributeError",
                                        "'PCA' object has no attribute 'explained_variance_ratio_'"))
               ELSE IF Len(obj.explained_variance_ratio_) < 3
               THEN ErrorReply(r, Raise("IndexError", "index 2 is out of bounds"))
               ELSE [r EXCEPT !.pc = "p67",
                              !.loc.variance_explained = obj.explained_variance_ratio_,
                              !.loc.cumulative_variance = CumSum(obj.explained_variance_ratio_)]]
        /\ UNCHANGED <<cache, shared, heap>>
        /\ UNCHANGED engineVars

\* Lines 67-68: the plots read self.maturities and self.pca.components_; a
\* failure inside a plot is caught and the plot is empty.
P67(t) ==
    LET r == requests[t]
        obj == heap[shared.pca.some]
    IN  /\ r.pc = "p67"
        /\ requests' = [requests EXCEPT ![t] =
               [r EXCEPT !.pc = "p71",
                         !.loc.yield_curve_plot = [x |-> r.loc.dates, y |-> shared.maturities],
                         !.loc.pc_plot = IF obj.fitted
                                         THEN [x |-> shared.maturities,
                                               y |-> Take(obj.components_, 5)]
                                         ELSE None]]
        /\ UNCHANGED <<cache, shared, heap>>
        /\ UNCHANGED engineVars

\* Lines 71-82: the dict returned holds self.pca and self.mean_curve.
P71(t) ==
    LET r == requests[t]
    IN  /\ r.pc = "p71"
        /\ requests' = [requests EXCEPT ![t] =
               [r EXCEPT !.pc = "x280",
                         !.loc.results = [pca_model |-> shared.pca.some,
                                          mean_curve |-> shared.mean_curve]]]
        /\ UNCHANGED <<cache, shared, heap>>
        /\ UNCHANGED engineVars

\* The sheets of export_excel, lines 280-322, from the panel, the estimator
\* and the variances of the results.
Workbook(yd, model, variance_explained, cumulative_variance, args) ==
    [yield_curve_data |-> yd,
     principal_components |-> [index |-> yd.columns,
                               loadings |-> [j \in 1..Len(model.components_[1]) |->
                                               [i \in 1..Len(model.components_) |->
                                                   model.components_[i][j]]]],
     explained_variance |-> [individual |-> variance_explained,
                             cumulative |-> cumulative_variance],
     pca_scores |-> [Date |-> yd.Date, scores |-> PCATransform(model, yd.rows)],
     summary |-> [start_date |-> args.start_date, end_date |-> args.end_date,
                  n_observations |-> NObs(yd),
                  pc1 |-> variance_explained[1],
                  pc1_3 |-> CumSum(Take(variance_explained, 3))]]

\* export_excel lines 277-332: the workbook is written and sent.
X280(t) ==
    LET r == requests[t]
        obj == heap[r.loc.results.pca_model]
    IN  /\ r.pc = "x280"
        /\ requests' = [requests EXCEPT ![t] =
               IF ~obj.fitted
               THEN ErrorReply(r, Raise("AttributeError",
                                        "'PCA' object has no attribute 'components_'"))
               ELSE IF Len(obj.components_[1]) # NMat(r.yield_data)
               THEN ErrorReply(r, Raise("ValueError", "Shape of passed values does not match"))
               ELSE Finish([r EXCEPT !.workbook =
                               Workbook(r.yield_data, obj, r.loc.variance_explained,
                                        r.loc.cumulative_variance, r.args)], 200, "")]
        /\ UNCHANGED <<cache, shared, heap>>
        /\ UNCHANGED engineVars

\* The response is sent and the worker thread takes the next request.
Respond(t) ==
    /\ requests[t].pc = "done"
    /\ requests' = [requests EXCEPT ![t] = Idle]
    /\ UNCHANGED <<cache, shared, heap>>
    /\ UNCHANGED engineVars

\* The cached analysis of a request of thread t, and its response.
ServeAnalysis(t) ==
    \/ MemoGet(t)
    \/ /\ requests[t].pc = "fetch"
       /\ \E outcome \in FetchOutcomes(requests[t].args.start_date, requests[t].args.end_date) :
             Fetch(t, outcome)
    \/ Engine(t)
    \/ Respond(t)

\* The second fetch of an export.
ServeExport(t) ==
    /\ requests[t].pc = "x_fetch"
    /\ \E outcome \in FetchOutcomes(requests[t].args.start_date, requests[t].args.end_date) :
          ExportFetch(t, outcome)

\* export_excel from its call of perform_pca on.
ServeExcel(t) ==
    \/ P50(t) \/ P53(t) \/ P54(t) \/ P57(t) \/ P58(t) \/ P61(t) \/ P67(t) \/ P71(t)
    \/ X280(t)

EngineIdle ==
    /\ yield_data = EmptyFrame
    /\ analyzer = None
    /\ pca_results = None
    /\ stress_results = None
    /\ recon = None
    /\ first_fit = None
    /\ ecb = None

InitWeb ==
    /\ requests = [t \in Threads |-> Idle]
    /\ cache = {}
    /\ shared = PCAAnalyzer(DefaultComponents)
    /\ heap = <<>>
    /\ EngineIdle

\* Concurrent clients of /api/analyze, /api/export/csv and /api/cache/clear.
NextWeb ==
    \E t \in Threads :
        \/ \E body \in ConcurrentBodies \cup ShortBodies : Analyze(t, body)
        \/ \E body \in DatesOnly(ConcurrentBodies) : Export(t, "export_csv", body)
        \/ ClearCache(t)
        \/ ServeAnalysis(t)
        \/ ServeExport(t)

SpecWeb == InitWeb /\ [][NextWeb]_vars

\* Concurrent clients of /api/export/excel.
NextExcel ==
    \E t \in Threads :
        \/ \E body \in DatesOnly(ConcurrentBodies) : Export(t, "export_excel", body)
        \/ ServeAnalysis(t)
        \/ ServeExport(t)
        \/ ServeExcel(t)

SpecExcel == InitWeb /\ [][NextExcel]_vars

\* One request at a time, with any body.
NextRequest ==
    \/ \E body \in AllBodies : Analyze(1, body)
    \/ \E body \in DatesOnly(AllBodies), e \in {"export_csv", "export_excel"} :
          Export(1, e, body)
    \/ ClearCache(1)
    \/ ServeAnalysis(1)
    \/ ServeExport(1)
    \/ ServeExcel(1)

SpecRequest == InitWeb /\ [][NextRequest]_vars

\* ------------------------------------------------------------ engine (Spec)
\* Levels 0.5, 0.75 and the default 0.995.
QuantileLevels == {QDen \div 2, (3 * QDen) \div 4, STRESS_QUANTILE}

ValidPanels == { p \in Panels : MeanIsExact(p.rows)
                                  /\ Uncorrelated(Center(p.rows, MeanCurve(p.rows))) }

\* Five observations of four maturities whose fourth factor moves on the
\* latest date.
WidePanel ==
    PanelOf(<<[level |-> 1, b |-> 1, c |-> 4], [level |-> 2, b |-> 2, c |-> 2],
              [level |-> 2, b |-> 3, c |-> 2], [level |-> 2, b |-> 4, c |-> 1]>>, 5)

\* The panels of the period the caller turns to after the first fit.
OtherPanels ==
    { p \in ValidPanels :
        NObs(p) = 3 /\ \A t \in 1..3, j \in 1..NMat(p) : p.rows[t][j] \in 0..3 }

\* The rows of a panel in another order: row r of the result is row
\* order[r] of the panel, with its date.
Reorder(p, order) ==
    [Date |-> [r \in 1..NObs(p) |-> p.Date[order[r]]],
     columns |-> p.columns,
     rows |-> Mat([r \in 1..NObs(p) |-> p.rows[order[r]]])]

\* Panels whose rows are not in the order of their dates: latest date
\* first, and latest date in the middle.
ReorderedPanels ==
    { Reorder(p, [r \in 1..NObs(p) |-> NObs(p) + 1 - r]) : p \in OtherPanels \cup {WidePanel} }
        \cup { Reorder(p, [r \in 1..NObs(p) |-> IF r = 1 THEN 2 ELSE IF r = 2 THEN NObs(p)
                                               ELSE IF r = 3 THEN 1 ELSE r - 1])
                 : p \in OtherPanels \cup {WidePanel} }

WebIdle ==
    /\ requests = <<>>
    /\ cache = {}
    /\ shared = None
    /\ heap = <<>>
    /\ ecb = None

Init ==
    /\ yield_data \in ValidPanels \cup {ShortPanel, WidePanel} \cup ReorderedPanels
    /\ analyzer \in { PCAAnalyzer(n) : n \in 1..MaxComp }
    /\ pca_results = None
    /\ stress_results = None
    /\ recon = None
    /\ first_fit = None
    /\ WebIdle

\* results = analyzer.perform_pca(yield_data)
PerformPCA ==
    LET call == perform_pca(analyzer, yield_data)
    IN  /\ pca_results = None
        /\ analyzer' = call.self
        /\ pca_results' = call.out
        /\ first_fit' = IF first_fit = None /\ ~call.out.raised
                        THEN [panel |-> yield_data, analyzer |-> call.self, results |-> call.out,
                              again |-> FALSE]
                        ELSE IF first_fit # None /\ yield_data = first_fit.panel
                        THEN [first_fit EXCEPT !.again = TRUE]
                        ELSE first_fit
        /\ UNCHANGED <<yield_data, stress_results, recon>>
        /\ UNCHANGED webVars

\* The caller obtains the panel of another period.
LoadPanel(p) ==
    /\ first_fit # None
    /\ yield_data = first_fit.panel
    /\ p # yield_data
    /\ yield_data' = p
    /\ pca_results' = None
    /\ stress_results' = None
    /\ recon' = None
    /\ UNCHANGED <<analyzer, first_fit>>
    /\ UNCHANGED webVars

\* The caller turns back to the panel of the first fit, to fit it again.
ReloadFirst ==
    /\ first_fit # None
    /\ pca_results # None
    /\ ~first_fit.again
    /\ yield_data' = first_fit.panel
    /\ pca_results' = None
    /\ stress_results' = None
    /\ recon' = None
    /\ UNCHANGED <<analyzer, first_fit>>
    /\ UNCHANGED webVars

\* stress_generator.generate_scenarios(results, yield_data, quantile, rolling_window, unit)
GenerateScenarios(qnum, rolling_window, unit) ==
    /\ recon = None /\ stress_results = None
    /\ pca_results # None
    /\ ~pca_results.raised
    /\ stress_results' = [quantile |-> qnum, rolling_window |-> rolling_window, unit |-> unit,
                          out |-> generate_scenarios(pca_results, yield_data, qnum,
                                                     rolling_window, unit)]
    /\ recon' = None
    /\ UNCHANGED <<yield_data, analyzer, pca_results, first_fit>>
    /\ UNCHANGED webVars

DummyScores == <<<<0, 0, 0>>, <<1, 0, 0>>>>

\* analyzer.reconstruct_yield_curve(scores, n_components) on the scores of
\* the first fit, of the latest fit, or on scores that come from no fit.
Reconstruct(of, n_components) ==
    LET scores == IF of = "first" THEN first_fit.results.scores
                  ELSE IF of = "latest" THEN pca_results.scores
                  ELSE DummyScores
    IN  /\ recon = None /\ stress_results = None
        /\ of = "first" => first_fit # None
        /\ of = "latest" => (pca_results # None /\ ~pca_results.raised)
        /\ recon' = [of |-> of, n_components |-> n_components,
                     before |-> analyzer,
                     out |-> reconstruct_yield_curve(analyzer, scores, n_components)]
        /\ stress_results' = None
        /\ UNCHANGED <<yield_data, analyzer, pca_results, first_fit>>
        /\ UNCHANGED webVars

Next ==
    \/ PerformPCA
    \/ \E p \in OtherPanels : LoadPanel(p)
    \/ ReloadFirst
    \/ \E qnum \in QuantileLevels, w \in 1..MaxWindow, u \in 1..MaxUnit :
          GenerateScenarios(qnum, w, u)
    \/ \E of \in {"first", "latest", "dummy"}, n \in 1..MaxComp : Reconstruct(of, n)

Spec == Init /\ [][Next]_vars

\* ----------------------------------------------- services/ecb_api.py (SpecParse)
\* ECBDataService.MATURITIES, in the order of the class.
MATURITIES == [i \in 1..Len(Tenors) |-> Label(Tenors[i])]

\* Series ids a response may carry: two of MATURITIES and one that is not.
SeriesIds == {Label("1Y"), Label("2Y"), Label("7M")}

\* An observation of a series: [null] or [value].
NullObs == [null |-> TRUE, value |-> 0]

Obs(v) == [null |-> FALSE, value |-> v]

\* A cell of the pivoted frame: NaN where the records have no value.
NaN == [isna |-> TRUE, value |-> 0]

Cell(v) == [isna |-> FALSE, value |-> v]

\* All sequences over S of length 1..n.
SeqsUpTo(S, n) == UNION { [1..k -> S] : k \in 1..n }

\* The JSON documents of the model: the maturity dimension present or not,
\* its values, the time values (dates as day numbers, in any order, also
\* repeated) and the series, each with its index into the maturity values
\* and one observation per time index.
Responses ==
    [dataSets : {TRUE}, dimension : {TRUE},
     maturity_values : { m \in SeqsUpTo(SeriesIds, MaxSeries) :
                           \A i, j \in 1..Len(m) : i # j => m[i] # m[j] },
     time_values : SeqsUpTo(1..MaxTimes, MaxTimes),
     series : SeqsUpTo([mat_idx : 1..MaxSeries,
                        observations : [1..MaxTimes -> {NullObs, Obs(1), Obs(2)}]], MaxSeries)]
      \cup
    [dataSets : BOOLEAN, dimension : BOOLEAN,
     maturity_values : {<<Label("1Y")>>}, time_values : {<<1>>},
     series : {<<[mat_idx |-> 1, observations |-> [k \in 1..MaxTimes |-> Obs(1)]]>>}]

\* The sorted sequence of the elements of a set of integers.
RECURSIVE SortedSeq(_)
SortedSeq(S) ==
    IF S = {} THEN <<>>
    ELSE LET least == CHOOSE x \in S : \A y \in S : x <= y
         IN  <<least>> \o SortedSeq(S \ {least})

\* _parse_ecb_response, lines 145-163: one record per observation that has
\* a date and a value that is not None.
RecordsOf(data) ==
    Flatten([s \in 1..Len(data.series) |->
        LET series == data.series[s]
            maturity == IF series.mat_idx <= Len(data.maturity_values)
                        THEN data.maturity_values[series.mat_idx]
                        ELSE Label("UNKNOWN")
        IN  SelectSeq([k \in 1..Len(series.observations) |->
                          [Date |-> IF k <= Len(data.time_values) THEN data.time_values[k] ELSE 0,
                           Maturity |-> maturity,
                           null |-> series.observations[k].null,
                           Value |-> series.observations[k].value]],
                      LAMBDA r : r.Date # 0 /\ ~r.null)])

\* df.pivot(index='Date', columns='Maturity', values='Value'), sort_index,
\* the columns of MATURITIES that exist, reset_index (lines 172-186).
Pivot(records) ==
    IF \E a, b \in 1..Len(records) :
          a # b /\ records[a].Date = records[b].Date /\ records[a].Maturity = records[b].Maturity
    THEN Raise("ValueError", "Index contains duplicate entries, cannot reshape")
    ELSE
    LET index == SortedSeq({ records[a].Date : a \in 1..Len(records) })
        present == { records[a].Maturity : a \in 1..Len(records) }
        existing_cols == SelectSeq(MATURITIES, LAMBDA col : col \in present)
        at(d, col) == { a \in 1..Len(records) : records[a].Date = d /\ records[a].Maturity = col }
    IN  [Date |-> index,
         columns |-> existing_cols,
         rows |-> [t \in 1..Len(index) |->
                     [j \in 1..Len(existing_cols) |->
                         IF at(index[t], existing_cols[j]) = {} THEN NaN
                         ELSE Cell(records[CHOOSE a \in at(index[t], existing_cols[j]) : TRUE].Value)]]]

\* ECBDataService._parse_ecb_response: the frame it returns or the
\* exception it raises.
parse_ecb_response(data) ==
    IF ~data.dimension
    THEN Raise("Exception", "Failed to parse ECB data: Could not find maturity dimension in ECB response")
    ELSE LET records == RecordsOf(data)
         IN  IF records = <<>> THEN EmptyFrame
             ELSE LET df_pivot == Pivot(records)
                  IN  IF IsRaise(df_pivot)
                      THEN Raise("Exception", "Failed to parse ECB data: " \o df_pivot.msg)
                      ELSE df_pivot

\* ECBDataService.fetch_yield_curve, lines 91-101, on the document data.
FetchYieldCurve(data) ==
    /\ ecb = None
    /\ ecb' = [data |-> data,
               out |-> IF ~data.dataSets THEN EmptyFrame ELSE parse_ecb_response(data)]
    /\ UNCHANGED <<yield_data, analyzer, pca_results, stress_results, recon, first_fit>>
    /\ UNCHANGED <<requests, cache, shared, heap>>

InitParse == EngineIdle /\ WebIdle

NextParse == ecb = None /\ \E data \in Responses : FetchYieldCurve(data)

SpecParse == InitParse /\ [][NextParse]_vars

\* ------------------------------------------------------------------ claims
StressOk == stress_results # None /\ ~stress_results.out.raised

StressRows == 1..Len(stress_results.out.valid_idx)

\* C1: for every factor PC1..PC3 and every date of the stressed-score series
\* that generate_scenarios returns, stressed_up >= score >= stressed_down,
\* equivalently rolling_quantile_up >= 0 >= rolling_quantile_down.
C1_StressedScoresBracketScore ==
    StressOk =>
        \A d \in StressRows, i \in 1..3 :
            LET out == stress_results.out
            IN  /\ out.stressed_scores_up[d][i] >= QDen * out.scores_aligned[d][i]
                /\ QDen * out.scores_aligned[d][i] >= out.stressed_scores_down[d][i]
                /\ out.rolling_quantile_up[d][i] >= 0
                /\ out.rolling_quantile_down[d][i] <= 0

\* A returned series in which some factor is stressed strictly upwards and
\* some factor strictly downwards.
C1_Witness ==
    /\ StressOk
    /\ \E d \in StressRows, i \in 1..3 : stress_results.out.rolling_quantile_up[d][i] > 0
    /\ \E d \in StressRows, i \in 1..3 : stress_results.out.rolling_quantile_down[d][i] < 0

\* C2: generate_scenarios on a panel with fewer than unit+1 observations
\* raises InsufficientHistoryError, a dedicated signal.
C2_InsufficientHistoryIsSignalled ==
    (stress_results # None /\ NObs(yield_data) < stress_results.unit + 1) =>
        /\ stress_results.out.raised
        /\ stress_results.out.type = "InsufficientHistoryError"

InFlight(t) == requests[t].pc \in {"fetch", "engine"}

\* C3: of the concurrent analysis requests with one request key (start_date,
\* end_date, n_components, stress_quantile, rolling_window) at most one is
\* computing at any time; the others wait for its result.
C3_OneComputationPerKey ==
    \A t1, t2 \in DOMAIN requests :
        (t1 # t2 /\ InFlight(t1) /\ InFlight(t2)) => requests[t1].args # requests[t2].args

\* What export_excel writes for a request from that request's panel alone.
OwnWorkbook(r) ==
    LET fit == PCAFit(DefaultComponents, Center(r.yield_data.rows, MeanCurve(r.yield_data.rows)))
    IN  Workbook(r.yield_data, fit, fit.explained_variance_ratio_,
                 CumSum(fit.explained_variance_ratio_), r.args)

\* C4: under any interleaving of concurrent requests the PCA result of a
\* request (model, mean curve, loadings, scores) comes from that request's
\* own panel: the workbook of an Excel export is the workbook of its panel.
C4_ExportUsesOwnPanel ==
    \A t \in DOMAIN requests :
        (requests[t].pc = "done" /\ requests[t].endpoint = "export_excel"
            /\ requests[t].status = 200) =>
            requests[t].workbook = OwnWorkbook(requests[t])

\* C5: once a fit on panel A has returned, a reconstruction of A's scores
\* gives what it gave right after that fit, whatever was fitted since.
C5_ReconstructUsesModelOfItsScores ==
    (recon # None /\ recon.of = "first") =>
        recon.out = reconstruct_yield_curve(first_fit.analyzer, first_fit.results.scores,
                                            recon.n_components)

NumberOutside(v, lo, hi) == v.kind = "num" /\ (v.num < lo \/ v.num > hi)

\* A body that C6 names: a number out of range, a date missing, a date not
\* in YYYY-MM-DD format, or start_date not before end_date.
InvalidBody(body) ==
    \/ NumberOutside(body.n_components, 1, 10)
    \/ body.stress_quantile.kind = "num"
          /\ (2 * body.stress_quantile.num < QDen \/ 1000 * body.stress_quantile.num > 999 * QDen)
    \/ NumberOutside(body.rolling_window, 1, 120)
    \/ Falsy(body.start_date) \/ Falsy(body.end_date)
    \/ ~strptime(body.start_date.text).ok \/ ~strptime(body.end_date.text).ok
    \/ DateGE(strptime(body.start_date.text).ymd, strptime(body.end_date.text).ymd)

\* C6: every /api/analyze request with an out-of-range n_components,
\* stress_quantile or rolling_window, a missing or malformed date, or
\* start_date >= end_date is answered 400 with an error message, and nothing
\* is fetched, fitted, stressed or cached for it.
C6_InvalidRequestIsRejected ==
    \A t \in DOMAIN requests :
        (requests[t].pc = "done" /\ requests[t].endpoint = "analyze"
            /\ InvalidBody(requests[t].body)) =>
            /\ requests[t].status = 400
            /\ requests[t].error # ""
            /\ requests[t].did = {}

\* C7: every n_components of 1..10 is usable: on a panel with at least
\* n_components maturities and more than unit observations the analysis
\* completes with explained variance and scenarios.
C7_EveryComponentCountIsUsable ==
    /\ (pca_results # None /\ analyzer.n_components \in 1..10
            /\ NMat(yield_data) >= analyzer.n_components) =>
          ~pca_results.raised
    /\ (stress_results # None /\ NObs(yield_data) > stress_results.unit) =>
          ~stress_results.out.raised

FitCalled == pca_results # None

\* C8: fit retains exactly k = min(n_components, m, n_observations - 1)
\* factors, capping a larger request instead of rejecting it; loadings,
\* explained variance and scores have length k.
C8_FitCapsComponents ==
    FitCalled =>
        LET k == Min(Min(analyzer.n_components, NMat(yield_data)), NObs(yield_data) - 1)
        IN  /\ analyzer.pca.fitted
            /\ analyzer.pca.n_components_ = k
            /\ Len(analyzer.pca.components_) = k
            /\ Len(analyzer.pca.explained_variance_ratio_) = k
            /\ ~pca_results.raised => \A t \in 1..Len(pca_results.scores) :
                                          Len(pca_results.scores[t]) = k

Degenerate(yd) == TotalVar(Center(yd.rows, MeanCurve(yd.rows))) = 0

\* C9: fit on a totally degenerate panel fails with DegenerateInputError and
\* never returns NaN in its explained variance.
C9_DegeneratePanelFailsCleanly ==
    (FitCalled /\ Degenerate(yield_data)) =>
        /\ pca_results.raised
        /\ pca_results.type = "DegenerateInputError"

NeverFitted(a) == a = PCAAnalyzer(a.n_components)

\* C10: reconstruct on a decomposer that was never fitted raises the error
\* saying that PCA must be fitted, for any scores and n, and leaves the
\* decomposer as it was.
C10_ReconstructBeforeFitRaises ==
    [][(recon' # recon /\ recon' # None /\ NeverFitted(analyzer)) =>
          /\ recon'.out.raised
          /\ recon'.out.type = "ValueError"
          /\ recon'.out.msg = "PCA must be fitted before reconstruction"
          /\ analyzer' = analyzer]_vars

C10_Witness ==
    /\ recon # None
    /\ NeverFitted(recon.before)
    /\ recon.out.raised
    /\ NeverFitted(analyzer)

\* (observation - per-maturity mean) projected on the loadings, for every
\* observation of the panel.
CentredProjection(yd, components) ==
    LET mean == MeanCurve(yd.rows)
    IN  Mat([t \in 1..NObs(yd) |->
                [i \in 1..Len(components) |->
                    Dot([j \in 1..NMat(yd) |-> yd.rows[t][j] - mean[j]], components[i])]])

ExcelDone(t) ==
    /\ requests[t].pc = "done"
    /\ requests[t].endpoint = "export_excel"
    /\ requests[t].status = 200

\* C11: the scores that perform_pca returns and the 'PCA Scores' sheet of
\* /api/export/excel are both the centred observations projected on the
\* loadings of the fitted model, and agree for the same panel.
C11_ScoresAreCentredProjections ==
    \A t \in DOMAIN requests :
        ExcelDone(t) =>
            LET r == requests[t]
                loadings == heap[r.loc.results.pca_model].components_
            IN  /\ r.loc.scores = CentredProjection(r.yield_data, loadings)
                /\ r.workbook.pca_scores.scores = CentredProjection(r.yield_data, loadings)

\* An /api/analyze request that passed validation and whose fetch returned
\* a panel.
AnalyzedPanel(t) ==
    /\ requests[t].pc = "done"
    /\ requests[t].endpoint = "analyze"
    /\ requests[t].yield_data # None

\* C12: an /api/analyze request that passes validation and whose panel is
\* empty or has no more than unit = 30 observations is answered with a 4xx
\* status and an error message, never with a 5xx.
C12_UnusablePanelIsClientError ==
    \A t \in DOMAIN requests :
        (AnalyzedPanel(t) /\ NObs(requests[t].yield_data) <= DefaultUnit) =>
            /\ requests[t].status \in 400..499
            /\ requests[t].error # ""

\* The cached analysis of thread t ends with a failure in this step.
AnalysisFails(t) ==
    /\ requests[t].pc \in {"fetch", "engine"}
    /\ requests'[t].pc = "done"
    /\ requests'[t].status >= 400

\* The lookup of thread t in this step finds no entry for its key.
MemoMiss(t) ==
    /\ requests[t].pc = "memo_get"
    /\ requests'[t].pc # "memo_get"
    /\ \A e \in cache : e.key # memoize_key(requests[t].args)

\* C13: a failed analysis (data-source error, empty panel, engine error)
\* reaches the request that triggered it and nothing else: the step stores
\* no cache entry, changes no shared state and no other request, and a
\* later request that finds no entry for its key computes again.
C13_FailureStaysWithItsRequest ==
    [][\A t \in DOMAIN requests :
          /\ AnalysisFails(t) =>
                /\ cache' = cache
                /\ shared' = shared
                /\ heap' = heap
                /\ \A u \in DOMAIN requests : u # t => requests'[u] = requests[u]
          /\ MemoMiss(t) => requests'[t].pc = "fetch"]_vars

Computed(t) ==
    /\ requests[t].pc = "done"
    /\ requests[t].status = 200
    /\ "cache_set" \in requests[t].did

\* The analysis of one request has failed at the data source and a request
\* with the same key has computed its result, which is in the cache.
C13_Witness ==
    \E t, u \in DOMAIN requests :
        /\ requests[t].pc = "done" /\ requests[t].endpoint = "analyze"
        /\ requests[t].status >= 400 /\ "fetch" \in requests[t].did
        /\ Computed(u)
        /\ requests[u].args = requests[t].args
        /\ \E e \in cache : e.key = memoize_key(requests[u].args)

\* The arguments that a cache key stands for.
KeyArgs(key) ==
    [start_date |-> key[1], end_date |-> key[2], n_components |-> key[3],
     stress_quantile |-> key[4], rolling_window |-> key[5]]

\* rv is what a successful computation with these arguments returns.
ComputedFor(args, rv) ==
    \E yd \in { o \in FetchOutcomes(args.start_date, args.end_date) : ~IsRaise(o) } :
        /\ ~Analyses[[yd |-> yd, args |-> args]].out.raised
        /\ rv = Analyses[[yd |-> yd, args |-> args]].out

\* The lookup of thread t in this step is answered from the cache.
MemoHit(t) ==
    /\ requests[t].pc = "memo_get"
    /\ requests'[t].pc \notin {"memo_get", "fetch"}

FittedAgain ==
    /\ first_fit # None
    /\ first_fit.again
    /\ yield_data = first_fit.panel
    /\ pca_results # None

ValidPanel(yd) == yd # EmptyFrame /\ NObs(yd) >= 2 /\ NMat(yd) >= 1

FitReturned == pca_results # None /\ ~pca_results.raised

\* 0 <= r <= 1; a comparison with NaN is false.
InUnitInterval(r) == ~IsNaN(r) /\ 0 <= r.num /\ r.num <= r.den

\* a >= b for two ratios; a comparison with NaN is false.
RatioGE(a, b) == ~IsNaN(a) /\ ~IsNaN(b) /\ a.num * b.den >= b.num * a.den

\* sum(explained_variance) of ratios over one denominator.
SumRatios(rs) == Ratio(SumSeq([i \in 1..Len(rs) |-> rs[i].num]), rs[1].den)

\* C16: for every valid panel the explained variance a fit returns is sorted
\* in descending order, each element lies in [0,1] and the sum is at most 1.
C16_ExplainedVarianceIsOrderedShare ==
    (FitReturned /\ ValidPanel(yield_data)) =>
        LET ev == pca_results.variance_explained
        IN  /\ \A i \in 1..(Len(ev) - 1) : RatioGE(ev[i], ev[i + 1])
            /\ \A i \in 1..Len(ev) : InUnitInterval(ev[i])
            /\ InUnitInterval(SumRatios(ev))

\* sum of explained_variance[0..i], i counted from 1 here.
RunningSum(ev, i) == Ratio(SumTo([j \in 1..Len(ev) |-> ev[j].num], i), ev[i].den)

Eigenvalues(yd) ==
    LET asc == SortAsc(SumSqs(Center(yd.rows, MeanCurve(yd.rows))))
    IN  [i \in 1..Len(asc) |-> asc[Len(asc) + 1 - i]]

\* An /api/analyze request for which the analysis has been computed and
\* returned.
AnalysisReturned(t) ==
    /\ AnalyzedPanel(t)
    /\ requests[t].status = 200
    /\ requests[t].rv # None

\* C18: the explained variance of each retained factor is its eigenvalue
\* divided by the sum of all eigenvalues of the centred panel; when fewer
\* factors are retained than the rank and a discarded eigenvalue is
\* positive, the retained values sum to strictly less than 1.
C18_ShareOfTotalVariance ==
    \A t \in DOMAIN requests :
        AnalysisReturned(t) =>
            LET eig == Eigenvalues(requests[t].yield_data)
                ev == requests[t].rv.explained_variance.bars
            IN  /\ \A i \in 1..Len(ev) : ev[i] = Ratio(eig[i], SumSeq(eig))
                /\ (\E j \in (Len(ev) + 1)..Len(eig) : eig[j] > 0) =>
                      /\ ~IsNaN(SumRatios(ev))
                      /\ SumRatios(ev).num < SumRatios(ev).den

\* An analysis with three factors of a panel whose fourth eigenvalue is
\* positive has been returned.
C18_Witness ==
    \E t \in DOMAIN requests :
        /\ AnalysisReturned(t)
        /\ Len(requests[t].rv.explained_variance.bars) = 3
        /\ Eigenvalues(requests[t].yield_data)[4] > 0

\* reconstruct_yield_curve has been called on the scores of the latest fit
\* with n = k, the number of factors the fitted model retains.
RoundTrip ==
    /\ recon # None
    /\ recon.of = "latest"
    /\ FitReturned
    /\ recon.n_components = Len(pca_results.pca_model.components_)

\* No positive eigenvalue of the centred panel is discarded by the fit.
NothingDiscarded ==
    \A j \in (Len(pca_results.pca_model.components_) + 1)..NMat(yield_data) :
        Eigenvalues(yield_data)[j] = 0

\* C19 as stated: reconstructing from the model's own scores of a panel with
\* n = k, the number of retained factors, gives back the original panel.
C19_RoundTripAtRetainedRank ==
    RoundTrip =>
        /\ ~recon.out.raised
        /\ recon.out.value = yield_data.rows

\* C19 amended: reconstructing from the model's own scores of a panel with
\* n = k gives back the original panel when the k retained factors carry
\* all the variance of the centred panel.
C19_RoundTripAtFullRank ==
    (RoundTrip /\ NothingDiscarded) =>
        /\ ~recon.out.raised
        /\ recon.out.value = yield_data.rows

\* A round trip on a panel that varies, with nothing discarded.
C19_Witness ==
    /\ RoundTrip
    /\ NothingDiscarded
    /\ ~Degenerate(yield_data)
    /\ \E t \in 1..NObs(yield_data) : yield_data.rows[t] # pca_results.mean_curve

\* The unit a request configures: its option unit, by default 30.
ConfiguredUnit(body) == IF body.unit.kind = "null" THEN DefaultUnit ELSE body.unit.num

\* C20: the analysis honours the option unit of its configuration: the lag
\* L of the differences and the window W * L of the rolling quantile of a
\* request are those of the configured unit, not of a fixed constant.
C20_ConfiguredUnitIsUsed ==
    \A t \in DOMAIN requests :
        AnalysisReturned(t) =>
            LET r == requests[t]
                pr == perform_pca(PCAAnalyzer(OrDefault(r.args.n_components, N_COMPONENTS)),
                                  r.yield_data).out
                expected == generate_scenarios(pr, r.yield_data,
                                               OrDefault(r.args.stress_quantile, STRESS_QUANTILE),
                                               OrDefault(r.args.rolling_window, ROLLING_WINDOW_MONTHS),
                                               ConfiguredUnit(r.body))
            IN  /\ Len(r.rv.stressed_scores.up) = NObs(r.yield_data) - ConfiguredUnit(r.body)
                /\ ~expected.raised
                /\ r.rv.stressed_scores.up = expected.stressed_scores_up
                /\ r.rv.stressed_scores.down = expected.stressed_scores_down
                /\ r.rv.stress_scenarios = expected.scenarios

\* The parser has accepted the response: it returned a frame.
Accepted == ecb # None /\ ~IsRaise(ecb.out)

\* C21: for every response the parser accepts, the panel has its rows in
\* strictly ascending order of unique dates, its maturity columns in the
\* order of MATURITIES and no missing value in any cell, also when some
\* observation of some maturity is null.
C21_ParsedPanelIsCleanAndOrdered ==
    Accepted =>
        LET df == ecb.out
        IN  /\ \A t \in 1..(Len(df.Date) - 1) : df.Date[t] < df.Date[t + 1]
            /\ \A i, j \in 1..Len(df.columns) :
                  i < j => \E a, b \in 1..Len(MATURITIES) :
                              a < b /\ MATURITIES[a] = df.columns[i] /\ MATURITIES[b] = df.columns[j]
            /\ \A t \in 1..Len(df.rows) : Len(df.rows[t]) = Len(df.columns)
            /\ \A t \in 1..Len(df.rows), j \in 1..Len(df.columns) : ~df.rows[t][j].isna

\* The base scores of the reference date and their stressed values, in
\* units of 1/QDen.
BaseScores == [i \in 1..3 |-> QDen * stress_results.out.scores_aligned[Len(stress_results.out.valid_idx)][i]]

StressedUp == stress_results.out.stressed_scores_up[Len(stress_results.out.valid_idx)]

StressedDown == stress_results.out.stressed_scores_down[Len(stress_results.out.valid_idx)]

\* C22: for each factor i in 1..3 the score vector of the up (down) scenario
\* is the base score vector of the reference date with component i alone
\* replaced by its stressed-up (stressed-down) value, and building the
\* scenario of a factor leaves the base scores as they were.
C22_OnlyOneComponentIsStressed ==
    StressOk =>
        \A i \in 1..3 :
            LET sv == stress_results.out.score_vectors[i]
            IN  /\ sv.base_scores = BaseScores
                /\ sv.scores_up[i] = StressedUp[i]
                /\ sv.scores_down[i] = StressedDown[i]
                /\ \A j \in 1..3 : j # i =>
                      /\ sv.scores_up[j] = BaseScores[j]
                      /\ sv.scores_down[j] = BaseScores[j]

\* Scenarios have been built where the stressed values of two factors differ
\* from the base scores, upwards for one and downwards for one.
C22_Witness ==
    /\ StressOk
    /\ \E i, j \in 1..3 : i # j /\ StressedUp[i] # BaseScores[i] /\ StressedUp[j] # BaseScores[j]
    /\ \E i \in 1..3 : StressedDown[i] # BaseScores[i]

\* The curve of the scores sv on the first n loadings of the fitted model,
\* in units of 1/QDen.
CurveOf(sv, n) ==
    [j \in 1..Len(pca_results.mean_curve) |->
        SumSeq([i \in 1..n |-> sv[i] * pca_results.pca_model.components_[i][j]])
            + QDen * pca_results.mean_curve[j]]

\* All k scores of the reference date, in units of 1/QDen.
ReferenceScores ==
    LET t == CHOOSE u \in 1..Len(pca_results.dates) :
                 pca_results.dates[u] = stress_results.out.latest_date
    IN  [i \in 1..Len(pca_results.scores[t]) |-> QDen * pca_results.scores[t][i]]

\* C23: each stressed curve is reconstructed from n = min(4, k, number of
\* scores) factors, so that with k >= 4 retained factors the fourth factor's
\* score at the reference date is part of the up and down curves.
C23_FourthFactorContributes ==
    (StressOk /\ FitReturned /\ Len(pca_results.pca_model.components_) >= 4) =>
        \A pc \in 1..3 :
            LET n == Min(4, Len(pca_results.pca_model.components_))
            IN  /\ stress_results.out.scenarios[pc].up =
                      CurveOf([ReferenceScores EXCEPT ![pc] = StressedUp[pc]], n)
                /\ stress_results.out.scenarios[pc].down =
                      CurveOf([ReferenceScores EXCEPT ![pc] = StressedDown[pc]], n)

\* The latest date of the panel at hand.
LatestDate == CHOOSE d \in { yield_data.Date[t] : t \in 1..NObs(yield_data) } :
                  \A t \in 1..NObs(yield_data) : yield_data.Date[t] <= d

\* The observation of the panel at date d, in units of 1/QDen.
ObservationAt(d) ==
    LET t == CHOOSE u \in 1..NObs(yield_data) : yield_data.Date[u] = d
    IN  [j \in 1..NMat(yield_data) |-> QDen * yield_data.rows[t][j]]

\* C24: whatever the row order of the panel, the scores are in ascending
\* date order before the differences are taken; for a panel of at least
\* unit + 1 observations latest_date is the latest date of the panel, and
\* the original curve of the three scenarios is the observation of that
\* date, as long as the up and down curves and the maturity list.
C24_ReferenceIsLatestDate ==
    (stress_results # None /\ NObs(yield_data) >= stress_results.unit + 1) =>
        LET out == stress_results.out
        IN  /\ ~out.raised
            /\ \A d \in 1..(Len(out.valid_idx) - 1) : out.valid_idx[d] < out.valid_idx[d + 1]
            /\ \A d \in 1..Len(out.valid_idx) :
                  \E t \in 1..NObs(yield_data) :
                      /\ yield_data.Date[t] = out.valid_idx[d]
                      /\ out.scores_aligned[d] = Take(pca_results.scores[t], 3)
            /\ out.latest_date = LatestDate
            /\ \A pc \in 1..3 :
                  /\ out.scenarios[pc].original = ObservationAt(LatestDate)
                  /\ Len(out.scenarios[pc].original) = NMat(yield_data)
                  /\ Len(out.scenarios[pc].up) = NMat(yield_data)
                  /\ Len(out.scenarios[pc].down) = NMat(yield_data)
                  /\ Len(out.scenarios[pc].maturities) = NMat(yield_data)

\* Scenarios of a panel whose first row carries its latest date.
C24_Witness ==
    /\ StressOk
    /\ yield_data.Date[1] = LatestDate
    /\ NObs(yield_data) >= stress_results.unit + 2
    /\ ObservationAt(LatestDate) # ObservationAt(yield_data.Date[NObs(yield_data)])

\* The dates of the fitted panel in ascending order.
SortedDates == SortedSeq({ pca_results.dates[t] : t \in 1..Len(pca_results.dates) })

\* The first three scores of the observation with the r-th date.
SortedScore(r) ==
    Take(pca_results.scores[CHOOSE t \in 1..Len(pca_results.dates) :
                                pca_results.dates[t] = SortedDates[r]], 3)

\* C25: the differences are taken by position with lag L = unit on the
\* date-sorted scores: the first L observations are dropped, the stressed
\* scores and the rolling quantiles have n - L rows, one for each remaining
\* date, and the difference at a date is the score of that date minus the
\* score L positions before (seen where the window holds one difference:
\* its up and down quantiles add up to it).
C25_DifferenceByPositionWithLag ==
    (StressOk /\ FitReturned) =>
        LET out == stress_results.out
            L == stress_results.unit
            n == Len(pca_results.scores)
        IN  /\ n > L
            /\ Len(out.valid_idx) = n - L
            /\ Len(out.stressed_scores_up) = n - L
            /\ Len(out.stressed_scores_down) = n - L
            /\ Len(out.rolling_quantile_up) = n - L
            /\ Len(out.rolling_quantile_down) = n - L
            /\ \A d \in 1..(n - L) :
                  /\ out.valid_idx[d] = SortedDates[d + L]
                  /\ out.scores_aligned[d] = SortedScore(d + L)
                  /\ (d = 1 \/ stress_results.rolling_window * L = 1) =>
                        \A i \in 1..3 :
                            out.rolling_quantile_up[d][i] + out.rolling_quantile_down[d][i]
                                = QDen * (SortedScore(d + L)[i] - SortedScore(d)[i])

\* Scenarios with a lag of two or more whose first difference is not the
\* difference of neighbouring observations.
C25_Witness ==
    /\ StressOk
    /\ FitReturned
    /\ stress_results.unit >= 2
    /\ Len(pca_results.scores) >= stress_results.unit + 2
    /\ SortedScore(1 + stress_results.unit) # SortedScore(1)
    /\ SortedScore(stress_results.unit) # SortedScore(1)

\* The difference of factor i at row d of the difference series.
DiffAt(d, i) == SortedScore(d + stress_results.unit)[i] - SortedScore(d)[i]

\* The rows of the difference series in the window that ends at d: the last
\* W * L of them, or all d when there are fewer.
WindowAt(d) ==
    LET size == Min(stress_results.rolling_window * stress_results.unit, d)
    IN  (d - size + 1)..d

\* The number of values of the set of rows R, taken with x, that are below
\* or equal to v: the rank of v among them.
Below(R, x(_), v) == Cardinality({ r \in R : x(r) <= v })

\* v is the k-th order statistic (k from 1) of the values x(r), r in R.
IsOrderStatistic(R, x(_), k, v) ==
    /\ \E r \in R : x(r) = v
    /\ Below(R, x, v) >= k
    /\ Cardinality({ r \in R : x(r) < v }) < k

\* QDen times the quantile at level qnum / QDen of the values x(r), r in R,
\* by linear interpolation between the two order statistics around
\* position (N - 1) * level.
LinearQuantile(R, x(_), qnum) ==
    LET N == Cardinality(R)
        pos == (N - 1) * qnum
        k == pos \div QDen
        frac == pos % QDen
        values == { x(r) : r \in R }
        lo == CHOOSE v \in values : IsOrderStatistic(R, x, k + 1, v)
        hi == CHOOSE v \in values : IsOrderStatistic(R, x, Min(k + 2, N), v)
    IN  QDen * lo + frac * (hi - lo)

\* C26: the rolling quantile at row d is taken over the last min(W * L, d)
\* differences ending at d, by linear interpolation between order
\* statistics, at level q on max(diff, 0) for the up series and at level
\* 1 - q on min(diff, 0) for the down series; a window of zeros gives 0.
C26_RollingQuantileIsInterpolated ==
    (StressOk /\ FitReturned) =>
        \A d \in 1..Len(stress_results.out.valid_idx), i \in 1..3 :
            LET up(r) == Max(DiffAt(r, i), 0)
                down(r) == Min(DiffAt(r, i), 0)
                q == stress_results.quantile
            IN  /\ stress_results.out.rolling_quantile_up[d][i] = LinearQuantile(WindowAt(d), up, q)
                /\ stress_results.out.rolling_quantile_down[d][i] =
                      LinearQuantile(WindowAt(d), down, QDen - q)
                /\ (\A r \in WindowAt(d) : DiffAt(r, i) <= 0) =>
                      stress_results.out.rolling_quantile_up[d][i] = 0
                /\ (\A r \in WindowAt(d) : DiffAt(r, i) >= 0) =>
                      stress_results.out.rolling_quantile_down[d][i] = 0

\* A quantile that lies strictly between two differences of its window, in
\* a series with more rows than the window holds.
C26_Witness ==
    /\ StressOk
    /\ FitReturned
    /\ stress_results.rolling_window * stress_results.unit < Len(stress_results.out.valid_idx)
    /\ \E d \in 1..Len(stress_results.out.valid_idx), i \in 1..3 :
          /\ stress_results.out.rolling_quantile_up[d][i] > 0
          /\ \A r \in WindowAt(d) :
                QDen * Max(DiffAt(r, i), 0) # stress_results.out.rolling_quantile_up[d][i]

\* The row of the difference series at the reference date.
ReferenceRow == Len(stress_results.out.valid_idx)

\* Point j of the up curve of factor i minus point j of its down curve.
UpMinusDown(i, j) ==
    stress_results.out.scenarios[i].up[j] - stress_results.out.scenarios[i].down[j]

\* rolling_quantile_up[i] - rolling_quantile_down[i] at the reference date.
QuantileSpread(i) ==
    stress_results.out.rolling_quantile_up[ReferenceRow][i]
        - stress_results.out.rolling_quantile_down[ReferenceRow][i]

\* Row i of the loadings of the fitted model.
LoadingRow(i) == pca_results.pca_model.components_[i]

\* The up and the down curve of factor i are the quantile spread of the
\* factor at the reference date times its loading row apart.
SpreadTimesLoading(i) ==
    \A j \in 1..Len(LoadingRow(i)) : UpMinusDown(i, j) = QuantileSpread(i) * LoadingRow(i)[j]

\* The up and the down curve of factor i are not the same curve.
UpDownDiffer(i) == \E j \in 1..Len(LoadingRow(i)) : UpMinusDown(i, j) # 0

\* Some move of factor i inside the window of the reference date is not zero.
MovedInWindow(i) == \E r \in WindowAt(ReferenceRow) : DiffAt(r, i) # 0

\* C28 as stated: up minus down is the quantile spread times the loading
\* row, and the two curves differ whenever some move of the factor inside
\* the window of the reference date is not zero.
C28_UpDownDifferWheneverMoved ==
    (StressOk /\ FitReturned) =>
        \A i \in 1..3 :
            /\ SpreadTimesLoading(i)
            /\ MovedInWindow(i) => UpDownDiffer(i)

\* C28, amended: up minus down is the quantile spread times the loading
\* row, and the two curves differ whenever the two rolling quantiles of the
\* factor at the reference date are not both zero.
C28_UpDownDifferBySpread ==
    (StressOk /\ FitReturned) =>
        \A i \in 1..3 :
            /\ SpreadTimesLoading(i)
            /\ (stress_results.out.rolling_quantile_up[ReferenceRow][i] # 0
                  \/ stress_results.out.rolling_quantile_down[ReferenceRow][i] # 0)
                    => UpDownDiffer(i)

\* A factor with a non-zero quantile at the reference date, beside a factor
\* whose quantiles there are both zero.
C28_Witness ==
    /\ StressOk
    /\ FitReturned
    /\ \E i \in 1..3 : QuantileSpread(i) # 0 /\ UpDownDiffer(i)
    /\ \E i \in 1..3 : QuantileSpread(i) = 0

\* The validation that C29 names: both dates present, in YYYY-MM-DD format,
\* and start_date before end_date.
ValidatedDates(start_date, end_date) ==
    /\ start_date # "" /\ end_date # ""
    /\ strptime(start_date).ok /\ strptime(end_date).ok
    /\ ~DateGE(strptime(start_date).ymd, strptime(end_date).ymd)

\* Request t has called the cached analysis.
Invoked(t) == requests[t].args # None

\* C29: every call of the cached analysis, from /api/analyze and from the
\* two exports, comes after a successful validation of the dates (present,
\* YYYY-MM-DD, start before end), and no cache entry exists for a pair of
\* dates that was not validated.
C29_AnalysisOnlyForValidatedDates ==
    /\ \A t \in DOMAIN requests :
          Invoked(t) => ValidatedDates(requests[t].args.start_date, requests[t].args.end_date)
    /\ \A e \in cache : ValidatedDates(KeyArgs(e.key).start_date, KeyArgs(e.key).end_date)

\* A parameter of the body that int() or float() cannot convert.
Malformed(body) ==
    \/ body.n_components.kind = "str"
    \/ body.stress_quantile.kind = "str"
    \/ body.rolling_window.kind = "str"

\* The data source of request t has raised.
FetchFailed(t) ==
    /\ requests[t].pc = "done" /\ requests[t].status >= 400
    /\ "fetch" \in requests[t].did
    /\ requests[t].yield_data = None

\* The engine of request t has raised on a panel that is not empty.
EngineFailed(t) ==
    /\ requests[t].pc = "done" /\ requests[t].status >= 400
    /\ requests[t].yield_data # None
    /\ requests[t].yield_data # EmptyFrame

\* C30: /api/analyze answers 404 only when the data source returned an
\* empty panel; a malformed parameter is answered 400 and a failure of the
\* engine or of the data source 500.
C30_NotFoundOnlyForEmptyPanel ==
    \A t \in DOMAIN requests :
        (requests[t].pc = "done" /\ requests[t].endpoint = "analyze") =>
            /\ requests[t].status = 404 => requests[t].yield_data = EmptyFrame
            /\ Malformed(requests[t].body) => requests[t].status = 400
            /\ (FetchFailed(t) \/ EngineFailed(t)) => requests[t].status = 500

====
